---- MODULE Spec2Model ----
(***************************************************************************)
(* A model of deckbuilder.py: the name normalizer, the price extraction,    *)
(* the color-identity check and the build action (input validation,        *)
(* commander lookup, collection resolution, deck assembly, suggestions).   *)
(*                                                                         *)
(* Strings are sequences of one-character strings.  A character outside    *)
(* ASCII is a token of several letters ("e_acute", "rsquo").               *)
(***************************************************************************)
EXTENDS Integers, Sequences, FiniteSets, TLC

(***************************************************************************)
(* Characters                                                              *)
(***************************************************************************)
UpperLetters ==
    <<"A","B","C","D","E","F","G","H","I","J","K","L","M",
      "N","O","P","Q","R","S","T","U","V","W","X","Y","Z">>

LowerLetters ==
    <<"a","b","c","d","e","f","g","h","i","j","k","l","m",
      "n","o","p","q","r","s","t","u","v","w","x","y","z">>

DigitChars == {"0","1","2","3","4","5","6","7","8","9"}

\* what \s and str.strip() take for white space (no line break occurs in a name)
SpaceChars == {" ", "\t"}

LowerSet == {LowerLetters[i] : i \in 1..26}

\* unicodedata.normalize("NFKD", c).encode("ascii", "ignore"): an accented
\* letter keeps its base letter, any other non-ASCII character is dropped
AsciiFold(c) ==
    CASE c = "e_acute" -> <<"e">>
      [] c = "u_circ"  -> <<"u">>
      [] c = "rsquo"   -> <<>>
      [] OTHER         -> <<c>>

\* str.lower() on one ASCII character
LowerChar(c) ==
    IF \E i \in 1..26 : UpperLetters[i] = c
    THEN LowerLetters[CHOOSE i \in 1..26 : UpperLetters[i] = c]
    ELSE c

(***************************************************************************)
(* String helpers                                                          *)
(***************************************************************************)
\* NFKD + ascii-ignore over a string (lines 32-33)
RECURSIVE Nfkd(_)
Nfkd(s) == IF s = <<>> THEN <<>> ELSE AsciiFold(Head(s)) \o Nfkd(Tail(s))

Lower(s) == [i \in 1..Len(s) |-> LowerChar(s[i])]

\* number of leading characters of s that lie in cls
RECURSIVE LeadRun(_, _)
LeadRun(s, cls) ==
    IF s = <<>> \/ Head(s) \notin cls THEN 0 ELSE 1 + LeadRun(Tail(s), cls)

\* number of trailing characters of s that lie in cls
RECURSIVE TrailRun(_, _)
TrailRun(s, cls) ==
    IF s = <<>> \/ s[Len(s)] \notin cls THEN 0
    ELSE 1 + TrailRun(SubSeq(s, 1, Len(s) - 1), cls)

\* str.strip()
Strip(s) == SubSeq(s, 1 + LeadRun(s, SpaceChars), Len(s) - TrailRun(s, SpaceChars))

\* re.sub(r'^\d+\s+', '', s): a leading run of digits directly followed by
\* white space goes, with all of that white space
StripCount(s) ==
    LET d == LeadRun(s, DigitChars)
        rest == SubSeq(s, d + 1, Len(s))
        w == LeadRun(rest, SpaceChars)
    IN  IF d >= 1 /\ w >= 1 THEN SubSeq(rest, w + 1, Len(rest)) ELSE s

\* re.sub(r'\s*\(.*?\)\s*$', '', s): when the last non-blank character is
\* ")" and a "(" stands before it, everything from the white space before
\* the FIRST "(" to the end goes (the lazy .*? grows until \)\s*$ matches)
StripParen(s) ==
    LET e == Len(s) - TrailRun(s, SpaceChars)
        opens == {i \in 1..Len(s) : s[i] = "(" /\ i < e}
    IN  IF e >= 1 /\ s[e] = ")" /\ opens # {}
        THEN LET i == CHOOSE k \in opens : \A m \in opens : k <= m
                 p == i - 1 - TrailRun(SubSeq(s, 1, i - 1), SpaceChars)
             IN  SubSeq(s, 1, p)
        ELSE s

\* re.sub(r'[^a-z0-9\s]', '', s)
StripPunct(s) == SelectSeq(s, LAMBDA c : c \in LowerSet \cup DigitChars \cup SpaceChars)

\* re.sub(r'\s+', ' ', s): every run of white space becomes one blank
RECURSIVE CollapseSpace(_)
CollapseSpace(s) ==
    IF s = <<>> THEN <<>>
    ELSE IF Head(s) \in SpaceChars
         THEN <<" ">> \o CollapseSpace(SubSeq(s, LeadRun(s, SpaceChars) + 1, Len(s)))
         ELSE <<Head(s)>> \o CollapseSpace(Tail(s))

\* _norm_name, step by step in the order of the source
_norm_name(s) ==
    IF s = <<>> THEN <<>>
    ELSE LET s1 == Strip(Lower(Nfkd(s)))
             s2 == StripCount(s1)
             s3 == StripParen(s2)
             s4 == StripPunct(s3)
         IN  Strip(CollapseSpace(s4))

(***************************************************************************)
(* Card records                                                            *)
(*                                                                         *)
(* A card is a record with the fields name, cmc, color_identity and prices *)
(* and, when the card is ranked, edhrec_rank.  prices maps "eur" and "usd" *)
(* to price strings; a currency whose price is null has no entry.          *)
(* Numbers that are floats in the source are integers here: a price is     *)
(* counted in units of 1/PriceUnit, the curve target in tenths.            *)
(***************************************************************************)
NoCard == [none |-> TRUE]

Truthy(card) == card # NoCard

Colors == {"W", "U", "B", "R", "G"}

\* a slip: a card counts as legal as soon as it shares a color
SharesColor(card, commander_identity) ==
    \/ card.color_identity = {}
    \/ card.color_identity \cap commander_identity # {}

\* card.get("color_identity") or []  ->  cid.issubset(commander_identity)
is_commander_legal(card, commander_identity) ==
    card.color_identity \subseteq commander_identity

(***************************************************************************)
(* Price extraction                                                        *)
(***************************************************************************)
\* longest price string the model enumerates
MaxPriceLen == 3

PriceUnit == 10 ^ (MaxPriceLen + 1)

DigitSeq == <<"0","1","2","3","4","5","6","7","8","9">>

DigitVal(c) == (CHOOSE i \in 1..10 : DigitSeq[i] = c) - 1

RECURSIVE DigitsVal(_)
DigitsVal(s) ==
    IF s = <<>> THEN 0
    ELSE 10 * DigitsVal(SubSeq(s, 1, Len(s) - 1)) + DigitVal(s[Len(s)])

\* float(s) succeeds: digits with at most one "." and at least one digit
\* (of the characters that occur in price strings here)
Parseable(s) ==
    /\ \A i \in 1..Len(s) : s[i] \in DigitChars \cup {"."}
    /\ Cardinality({i \in 1..Len(s) : s[i] = "."}) <= 1
    /\ \E i \in 1..Len(s) : s[i] \in DigitChars

\* float(s), in units of 1/PriceUnit
Float(s) ==
    LET d == LeadRun(s, DigitChars)
        frac == IF d < Len(s) THEN SubSeq(s, d + 2, Len(s)) ELSE <<>>
    IN  DigitsVal(SubSeq(s, 1, d)) * PriceUnit
        + (DigitsVal(frac) * PriceUnit) \div (10 ^ Len(frac))

\* p.get(cur) is truthy: present, not null, not the empty string
HasPrice(p, cur) == cur \in DOMAIN p /\ p[cur] # <<>>

\* get_price_eur: float() raising inside the try block ends in "return 0.0"
get_price_eur(card) ==
    IF ~Truthy(card) THEN 0
    ELSE LET p == card.prices
         IN  IF HasPrice(p, "eur")
             THEN (IF Parseable(p["eur"]) THEN Float(p["eur"]) ELSE 0)
             ELSE IF HasPrice(p, "usd")
                  THEN (IF Parseable(p["usd"]) THEN Float(p["usd"]) ELSE 0)
                  ELSE 0

(***************************************************************************)
(* Names                                                                   *)
(***************************************************************************)
SolRingName ==
    <<"S","o","l"," ","R","i","n","g">>

CultivateName ==
    <<"C","u","l","t","i","v","a","t","e">>

CommandTowerName ==
    <<"C","o","m","m","a","n","d"," ","T","o","w","e","r">>

TatyovaName ==
    <<"T","a","t","y","o","v","a",","," ","B","e","n","t","h","i","c"," ","D","r","u","i","d">>

TatyovaSetName ==
    <<"T","a","t","y","o","v","a",","," ","B","e","n","t","h","i","c"," ","D","r","u","i","d"," ","(","C","M","R",")">>

VillainousWealthName ==
    <<"V","i","l","l","a","i","n","o","u","s"," ","W","e","a","l","t","h">>

DelverName ==
    <<"D","e","l","v","e","r"," ","o","f"," ","S","e","c","r","e","t","s"," ","/","/"," ","I","n","s","e","c","t","i","l","e"," ","A","b","e","r","r","a","t","i","o","n">>

DelverFrontName ==
    <<"D","e","l","v","e","r"," ","o","f"," ","S","e","c","r","e","t","s">>

RhysticStudyName ==
    <<"R","h","y","s","t","i","c"," ","S","t","u","d","y">>

LimDulsVaultName ==
    <<"L","i","m","-","D","u_circ","l","'","s"," ","V","a","u","l","t">>

TwoSolRingName ==
    <<"2"," ","S","o","l"," ","R","i","n","g">>

SolRingLowerName ==
    <<"s","o","l"," ","r","i","n","g">>

ForestName ==
    <<"F","o","r","e","s","t">>

KarnName ==
    <<"K","a","r","n",","," ","S","i","l","v","e","r"," ","G","o","l","e","m">>

XyzzyName ==
    <<"X","y","z","z","y">>

FaceSep == <<" ","/","/"," ">>

HeaderNameName ==
    <<"N","a","m","e">>

\* STAPLES, as in the source
STAPLES ==
    <<<<"S","o","l"," ","R","i","n","g">>,
      <<"A","r","c","a","n","e"," ","S","i","g","n","e","t">>,
      <<"S","w","i","f","t","f","o","o","t"," ","B","o","o","t","s">>,
      <<"L","i","g","h","t","n","i","n","g"," ","G","r","e","a","v","e","s">>,
      <<"C","o","m","m","a","n","d"," ","T","o","w","e","r">>,
      <<"P","r","o","p","h","e","t","i","c"," ","P","r","i","s","m">>,
      <<"F","e","l","l","w","a","r"," ","S","t","o","n","e">>,
      <<"C","u","l","t","i","v","a","t","e">>,
      <<"K","o","d","a","m","a","'","s"," ","R","e","a","c","h">>>>

(***************************************************************************)
(* The card database behind get_card_info (the named?fuzzy= endpoint)      *)
(***************************************************************************)
SolRing ==
    [name |-> SolRingName, cmc |-> 1, color_identity |-> {}, edhrec_rank |-> 1,
     prices |-> [eur |-> <<"1",".","5">>, usd |-> <<"1",".","2">>]]

CommandTower ==
    [name |-> CommandTowerName, cmc |-> 0, color_identity |-> {}, edhrec_rank |-> 2,
     prices |-> [eur |-> <<"0",".","3">>]]

Cultivate ==
    [name |-> CultivateName, cmc |-> 3, color_identity |-> {"G"}, edhrec_rank |-> 40,
     prices |-> [eur |-> <<"0",".","5">>]]

Forest ==
    [name |-> ForestName, cmc |-> 0, color_identity |-> {"G"},
     prices |-> [usd |-> <<"0",".","1">>]]

Tatyova ==
    [name |-> TatyovaName, cmc |-> 5, color_identity |-> {"G", "U"}, edhrec_rank |-> 900,
     prices |-> [eur |-> <<"0",".","4">>]]

Karn ==
    [name |-> KarnName, cmc |-> 5, color_identity |-> {}, edhrec_rank |-> 700,
     prices |-> [eur |-> <<"2",".","5">>]]

VillainousWealth ==
    [name |-> VillainousWealthName, cmc |-> 3, color_identity |-> {"B", "G", "U"},
     edhrec_rank |-> 300, prices |-> [eur |-> <<"0",".","9">>]]

\* a double-faced card: the database names both faces
Delver ==
    [name |-> DelverName, cmc |-> 1, color_identity |-> {"U"},
     prices |-> [eur |-> <<"0",".","2">>]]

RhysticStudy ==
    [name |-> RhysticStudyName, cmc |-> 3, color_identity |-> {"U"}, edhrec_rank |-> 3,
     prices |-> [eur |-> <<"3","5",".","5">>, usd |-> <<"4","0">>]]

LimDulsVault ==
    [name |-> LimDulsVaultName, cmc |-> 2, color_identity |-> {"B", "U"},
     edhrec_rank |-> 500, prices |-> [usd |-> <<"4",".","5">>]]

DeckSize == 100

\* how far the largest collection exceeds the deck size
PoolExcess == 4

\* how many further cards the database holds beyond the ten above
NumGeneric == DeckSize + PoolExcess

ThreeDigits(i) ==
    <<DigitSeq[((i \div 100) % 10) + 1], DigitSeq[((i \div 10) % 10) + 1], DigitSeq[(i % 10) + 1]>>

GenericName(i) == <<"C","a","r","d"," ">> \o ThreeDigits(i)

\* the i-th further card: mana values 0..7, ranks that tie, some unranked
GenericCard(i) ==
    LET base == [name |-> GenericName(i), cmc |-> (i * 3) % 8,
                 color_identity |-> IF i % 2 = 0 THEN {"G"} ELSE {},
                 prices |-> [usd |-> <<"1">>]]
    IN  IF i % 4 = 0 THEN base
        ELSE [k \in DOMAIN base \cup {"edhrec_rank"} |->
                 IF k = "edhrec_rank" THEN 100 + (i % 5) ELSE base[k]]

ScryfallCards ==
    {SolRing, CommandTower, Cultivate, Forest, Tatyova, Karn, VillainousWealth,
     Delver, RhysticStudy, LimDulsVault}
    \cup {GenericCard(i) : i \in 1..NumGeneric}

\* the front face of a double-faced name: the part before " // "
FrontFace(name) ==
    LET at == {i \in 1..Len(name) : i + 3 <= Len(name) /\ SubSeq(name, i, i + 3) = FaceSep}
    IN  IF at = {} THEN name
        ELSE SubSeq(name, 1, (CHOOSE i \in at : \A j \in at : i <= j) - 1)

\* what the fuzzy match compares: case, accents and punctuation do not count
FuzzyKey(q) == Strip(CollapseSpace(StripPunct(Lower(Nfkd(q)))))

\* fuzzy key -> card; a double-faced card answers to its front face as well
ScryfallIndex ==
    LET keys == {FuzzyKey(c.name) : c \in ScryfallCards}
                \cup {FuzzyKey(FrontFace(c.name)) : c \in ScryfallCards}
    IN  [k \in keys |->
            CHOOSE c \in ScryfallCards :
                k \in {FuzzyKey(c.name), FuzzyKey(FrontFace(c.name))}]

\* the endpoint's answer to a query that reaches it
Fuzzy(q) ==
    LET k == FuzzyKey(q)
    IN  IF k \in DOMAIN ScryfallIndex THEN ScryfallIndex[k] ELSE NoCard

(***************************************************************************)
(* Deck assembly (the build action, after the recommendations arrive)      *)
(***************************************************************************)
InSeq(x, s) == \E i \in 1..Len(s) : s[i] = x

\* a for loop: Step applied to the accumulator and each element in order.
\* The list is split in halves and the first half is evaluated (by the
\* comparison) before the second, so that a long list does not nest deeply.
RECURSIVE ForEach(_, _, _)
ForEach(Step(_, _), acc, s) ==
    IF s = <<>> THEN acc
    ELSE IF Len(s) = 1 THEN Step(acc, s[1])
    ELSE LET h == Len(s) \div 2
             first == ForEach(Step, acc, SubSeq(s, 1, h))
         IN  IF first = first THEN ForEach(Step, first, SubSeq(s, h + 1, Len(s)))
             ELSE acc

\* a dict in insertion order: a sequence of [k, c]; a repeated key keeps its
\* place and takes the later value
DictPut(d, k, c) ==
    IF \E i \in 1..Len(d) : d[i].k = k
    THEN [i \in 1..Len(d) |-> IF d[i].k = k THEN [k |-> k, c |-> c] ELSE d[i]]
    ELSE Append(d, [k |-> k, c |-> c])

DictHas(d, k) == \E i \in 1..Len(d) : d[i].k = k

DictGet(d, k) ==
    IF DictHas(d, k) THEN d[CHOOSE i \in 1..Len(d) : d[i].k = k].c ELSE NoCard

\* scry_idx = {_norm_name(c.get("name","")): c for c in pool}
ScryIdx(cards) ==
    ForEach(LAMBDA d, c : DictPut(d, _norm_name(c.name), c), <<>>, cards)

\* owned_edhrec: the legal pool cards the recommendations name, in their order
OwnedStep(owned, en, idx, identity) ==
    LET c == DictGet(idx, _norm_name(en))
    IN  IF Truthy(c) /\ is_commander_legal(c, identity) THEN Append(owned, c) ELSE owned

OwnedEdhrec(idx, names, identity) ==
    ForEach(LAMBDA owned, en : OwnedStep(owned, en, idx, identity), <<>>, names)

\* staple_hits: the owned, legal staples, none twice
StapleStep(hits, s, idx, identity) ==
    LET c == DictGet(idx, _norm_name(s))
    IN  IF Truthy(c) /\ is_commander_legal(c, identity) /\ ~InSeq(c, hits)
        THEN Append(hits, c) ELSE hits

StapleHits(idx, names, identity) ==
    ForEach(LAMBDA hits, s : StapleStep(hits, s, idx, identity), <<>>, names)

RankSentinel == 999999

CmcSentinel == 99

\* x.get("edhrec_rank") or 999999: "or" replaces a missing rank, and 0
RankKey(x) ==
    IF "edhrec_rank" \in DOMAIN x /\ x.edhrec_rank # 0 THEN x.edhrec_rank ELSE RankSentinel

\* x.get("cmc") or 99: "or" replaces a missing mana value, and 0
CmcKey(x) == IF "cmc" \in DOMAIN x /\ x.cmc # 0 THEN x.cmc ELSE CmcSentinel

SortKey(x) == <<RankKey(x), CmcKey(x)>>

KeyLess(a, b) == a[1] < b[1] \/ (a[1] = b[1] /\ a[2] < b[2])

\* x goes behind every element whose key is not greater than its own
InsertSorted(sorted, x) ==
    LET kx == SortKey(x)
        k == Cardinality({i \in 1..Len(sorted) : ~KeyLess(kx, SortKey(sorted[i]))})
    IN  SubSeq(sorted, 1, k) \o <<x>> \o SubSeq(sorted, k + 1, Len(sorted))

\* list.sort(key=SortKey): ascending and stable
SortFillers(s) == ForEach(InsertSorted, <<>>, s)

\* [c for k,c in scry_idx.items() if c not in owned_edhrec and legal]
Fillers(idx, owned, identity) ==
    LET entries == SelectSeq(idx,
            LAMBDA e : ~InSeq(e.c, owned) /\ is_commander_legal(e.c, identity))
    IN  ForEach(LAMBDA cs, e : Append(cs, e.c), <<>>, entries)

\* fillers before the rotation (lines 249-250)
SortedFillers(idx, owned, identity) == SortFillers(Fillers(idx, owned, identity))

\* the 1 and the 6.0 of the bias, in tenths; the 0.45, in hundredths
CurveBase == 10

CurveSpan == 60

Damping == 45

\* max(0.0, min((avg_cmc - 1) / 6.0, 1.0)), as the numerator over CurveSpan
Bias(t) ==
    IF t < CurveBase THEN 0
    ELSE IF t - CurveBase > CurveSpan THEN CurveSpan ELSE t - CurveBase

\* int(len(fillers) * bias * 0.45).  Where the exact product is a whole
\* number the floating-point product can fall just below it (100 fillers at
\* a target of 3.0 give 14, not 15), so either value is an outcome.
ShiftOutcomes(n, t) ==
    LET num == n * Bias(t) * Damping
        den == CurveSpan * 100
        e == num \div den
    IN  IF num % den = 0 /\ e > 0 THEN {e - 1, e} ELSE {e}

\* fillers[shift:] + fillers[:shift]
Rotate(s, shift) == SubSeq(s, shift + 1, Len(s)) \o SubSeq(s, 1, shift)

\* for c in owned_edhrec: if c not in deck: deck.append(c)
AppendOwned(d0, cs) ==
    ForEach(LAMBDA d, c : IF InSeq(c, d) THEN d ELSE Append(d, c), d0, cs)

\* for c in fillers: break at 100 entries; if c not in deck: deck.append(c)
FillerStep(d, c) ==
    IF Len(d) >= DeckSize \/ InSeq(c, d) THEN d ELSE Append(d, c)

AppendFillers(d0, cs) == ForEach(FillerStep, d0, cs)

\* a slip: the final slice left out
Untruncated(d) == d

\* deck[:100]
Truncate(d) == SubSeq(d, 1, IF Len(d) < DeckSize THEN Len(d) ELSE DeckSize)

\* deck before the filler loop (lines 259-262)
DeckBeforeFillers(cmdr, staples, owned) == AppendOwned(<<cmdr>> \o staples, owned)

\* lines 258-268, given the sorted fillers and one outcome of the shift
BuildDeck(cmdr, staples, owned, sorted, shift) ==
    Truncate(AppendFillers(DeckBeforeFillers(cmdr, staples, owned), Rotate(sorted, shift)))

(***************************************************************************)
(* Recommendation feed                                                     *)
(***************************************************************************)
WordChars ==
    LowerSet \cup {UpperLetters[i] : i \in 1..26} \cup DigitChars \cup {"_"}

\* re.sub(r"\s+", "-", s): every run of white space becomes one hyphen
RECURSIVE Hyphenate(_)
Hyphenate(s) ==
    IF s = <<>> THEN <<>>
    ELSE IF Head(s) \in SpaceChars
         THEN <<"-">> \o Hyphenate(SubSeq(s, LeadRun(s, SpaceChars) + 1, Len(s)))
         ELSE <<Head(s)>> \o Hyphenate(Tail(s))

\* re.sub(r"-{2,}", "-", s)
RECURSIVE CollapseHyphen(_)
CollapseHyphen(s) ==
    IF s = <<>> THEN <<>>
    ELSE IF Head(s) = "-"
         THEN <<"-">> \o CollapseHyphen(SubSeq(s, LeadRun(s, {"-"}) + 1, Len(s)))
         ELSE <<Head(s)>> \o CollapseHyphen(Tail(s))

_ascii_slug(s) ==
    LET s1 == Lower(Nfkd(s))
        s2 == SelectSeq(s1, LAMBDA c : c \in WordChars \cup SpaceChars \cup {"-"})
        s3 == Hyphenate(s2)
        s4 == SubSeq(s3, 1 + LeadRun(s3, {"-"}), Len(s3) - TrailRun(s3, {"-"}))
    IN  CollapseHyphen(s4)

\* lines 97-106: strip each text, keep the first of every normalized key
DedupeStep(st, txt) ==
    LET n == Strip(txt)
        k == _norm_name(n)
    IN  IF k # <<>> /\ k \notin st.seen
        THEN [seen |-> st.seen \cup {k}, out |-> Append(st.out, n)]
        ELSE st

DedupeNames(texts) == ForEach(DedupeStep, [seen |-> {}, out |-> <<>>], texts).out

(***************************************************************************)
(* State                                                                   *)
(***************************************************************************)
VARIABLES
    pc,              \* where the script stands
    commander_name,  \* text input
    uploaded,        \* the uploaded file, or NoFile
    avg_cmc,         \* slider, in tenths
    max_price,       \* number input, in units of 1/PriceUnit
    down,            \* queries whose request fails (time-out, status # 200)
    feed,            \* the texts the recommendation page yields, in page order
    cache,           \* st.cache_data of get_card_info: query -> result
    calls,           \* the requests sent so far, in order
    lookups,         \* one entry per name resolved: the queries tried for it
    commander,       \* the commander record, or NoCard
    raw_names,       \* the names read from the collection
    pool,            \* the resolved collection cards
    not_found,       \* the collection names that resolved to nothing
    edhrec_names,    \* the recommendation list
    deck,            \* the assembled deck
    suggested,       \* the suggestion rows
    error,           \* the st.error shown, "" when none
    raw,             \* normalizer: input string
    key,             \* normalizer: _norm_name(raw)
    rekey,           \* normalizer: _norm_name(key)
    card,            \* price extraction: input record
    price            \* price extraction: get_price_eur(card)

inputs == <<commander_name, uploaded, avg_cmc, max_price, down, feed>>

build == <<cache, calls, lookups, commander, raw_names, pool, not_found,
           edhrec_names, deck, suggested, error>>

pure == <<raw, key, rekey, card, price>>

vars == <<pc, inputs, build, pure>>

NoFile == [kind |-> "none"]

TxtFile(lines) == [kind |-> "txt", lines |-> lines]

\* a .csv upload: the cells of its first column, the header cell first
CsvFile(cells) == [kind |-> "csv", lines |-> cells]

(***************************************************************************)
(* get_card_info through its cache                                         *)
(***************************************************************************)
\* the answer to a request: None on any failure, else the matched record
Respond(q) == IF q \in down THEN NoCard ELSE Fuzzy(q)

\* the value get_card_info(name) returns, with memo m = [cache, calls]
InfoOf(m, name) ==
    IF name \in DOMAIN m.cache THEN m.cache[name]
    ELSE IF name = <<>> THEN NoCard ELSE Respond(name)

\* the memo after get_card_info(name): a miss stores the result, and sends a
\* request unless the name is empty
MemoAfter(m, name) ==
    IF name \in DOMAIN m.cache THEN m
    ELSE [cache |-> m.cache @@ (name :> InfoOf(m, name)),
          calls |-> IF name = <<>> THEN m.calls
                    ELSE Append(m.calls, [svc |-> "scryfall", q |-> name])]

(***************************************************************************)
(* The build action, "Deck bauen"                                          *)
(***************************************************************************)
Memo == [cache |-> cache, calls |-> calls]

\* lines 166-171: the two input checks
Validate ==
    /\ pc = "clicked"
    /\ IF commander_name = <<>>
       THEN error' = "no_commander" /\ pc' = "stopped"
       ELSE IF uploaded = NoFile
            THEN error' = "no_upload" /\ pc' = "stopped"
            ELSE error' = error /\ pc' = "commander"
    /\ UNCHANGED <<inputs, cache, calls, lookups, commander, raw_names, pool,
                   not_found, edhrec_names, deck, suggested, pure>>

\* lines 173-178: one get_card_info call with the name as typed
FetchCommander ==
    /\ pc = "commander"
    /\ LET info == InfoOf(Memo, commander_name)
           m == MemoAfter(Memo, commander_name)
       IN  /\ cache' = m.cache
           /\ calls' = m.calls
           /\ lookups' = Append(lookups, [kind |-> "commander", raw |-> commander_name,
                                          tried |-> <<commander_name>>,
                                          found |-> Truthy(info)])
           /\ commander' = info
           /\ IF Truthy(info)
              THEN error' = error /\ pc' = "read"
              ELSE error' = "commander_not_found" /\ pc' = "stopped"
    /\ UNCHANGED <<inputs, raw_names, pool, not_found, edhrec_names, deck,
                   suggested, pure>>

\* pd.read_csv: a file without any row raises (EmptyDataError); the first
\* row is the header
CsvReadable(f) == f.lines # <<>>

CsvNames(f) == Tail(f.lines)

\* [ln.strip() for ln in raw_text.splitlines() if ln.strip()]
TxtNames(f) ==
    LET stripped == [i \in 1..Len(f.lines) |-> Strip(f.lines[i])]
    IN  SelectSeq(stripped, LAMBDA ln : ln # <<>>)

\* lines 180-191
ReadCollection ==
    /\ pc = "read"
    /\ IF uploaded.kind = "csv" /\ ~CsvReadable(uploaded)
       THEN /\ error' = "collection_unreadable"
            /\ pc' = "stopped"
            /\ raw_names' = raw_names
       ELSE /\ error' = error
            /\ pc' = "resolve"
            /\ raw_names' = IF uploaded.kind = "csv" THEN CsvNames(uploaded)
                            ELSE TxtNames(uploaded)
    /\ UNCHANGED <<inputs, cache, calls, lookups, commander, pool, not_found,
                   edhrec_names, deck, suggested, pure>>

\* one turn of the loop of lines 199-211, on st = [m, pool, not_found, lookups]
ResolveOne(st, rawname) ==
    LET nm_try == Strip(rawname)
        first == InfoOf(st.m, nm_try)
        m1 == MemoAfter(st.m, nm_try)
        nm_norm == _norm_name(nm_try)
        info == IF Truthy(first) THEN first ELSE InfoOf(m1, nm_norm)
    IN  [m |-> IF Truthy(first) THEN m1 ELSE MemoAfter(m1, nm_norm),
         pool |-> IF Truthy(info) THEN Append(st.pool, info) ELSE st.pool,
         not_found |-> IF Truthy(info) THEN st.not_found
                       ELSE Append(st.not_found, rawname),
         lookups |-> Append(st.lookups,
                        [kind |-> "collection", raw |-> rawname,
                         tried |-> IF Truthy(first) THEN <<nm_try>>
                                   ELSE <<nm_try, nm_norm>>,
                         found |-> Truthy(info)])]

\* lines 195-211
ResolveCollection ==
    /\ pc = "resolve"
    /\ LET st == ForEach(ResolveOne, [m |-> Memo, pool |-> <<>>, not_found |-> <<>>,
                             lookups |-> lookups], raw_names)
       IN  /\ cache' = st.m.cache
           /\ calls' = st.m.calls
           /\ pool' = st.pool
           /\ not_found' = st.not_found
           /\ lookups' = st.lookups
    /\ pc' = "edhrec"
    /\ UNCHANGED <<inputs, commander, raw_names, edhrec_names, deck, suggested,
                   error, pure>>

\* lines 217-219: get_edhrec_card_names(commander.get("name")); a page that
\* cannot be fetched or parsed and a page without names both give []
FetchEdhrec ==
    /\ pc = "edhrec"
    /\ calls' = Append(calls, [svc |-> "edhrec", q |-> _ascii_slug(commander.name)])
    /\ edhrec_names' = DedupeNames(feed)
    /\ pc' = "assemble"
    /\ UNCHANGED <<inputs, cache, lookups, commander, raw_names, pool, not_found,
                   deck, suggested, error, pure>>

\* lines 221-268
Assemble ==
    /\ pc = "assemble"
    /\ LET idx == ScryIdx(pool)
           identity == commander.color_identity
           owned == OwnedEdhrec(idx, edhrec_names, identity)
           staples == StapleHits(idx, STAPLES, identity)
           sorted == SortedFillers(idx, owned, identity)
       IN  \E shift \in ShiftOutcomes(Len(sorted), avg_cmc) :
               deck' = BuildDeck(commander, staples, owned, sorted, shift)
    /\ pc' = "suggest"
    /\ UNCHANGED <<inputs, cache, calls, lookups, commander, raw_names, pool,
                   not_found, edhrec_names, suggested, error, pure>>

SuggestCap == 150

\* missing_names = [n for n in edhrec_names if _norm_name(n) not in scry_idx]
MissingNames(names, idx) ==
    SelectSeq(names, LAMBDA n : ~DictHas(idx, _norm_name(n)))

\* max_price <= 0 or price <= max_price
PriceOk(p, ceiling) == ceiling <= 0 \/ p <= ceiling

\* one turn of the loop of lines 296-311, on st = [m, suggested, lookups]
SuggestOne(st, nm, identity, ceiling) ==
    LET info == InfoOf(st.m, nm)
        p == get_price_eur(info)
        keep == /\ Truthy(info)
                /\ is_commander_legal(info, identity)
                /\ PriceOk(p, ceiling)
    IN  [m |-> MemoAfter(st.m, nm),
         suggested |-> IF keep
                       THEN Append(st.suggested,
                                [Name |-> info.name, Price |-> p, ManaValue |-> info.cmc])
                       ELSE st.suggested,
         lookups |-> Append(st.lookups,
                        [kind |-> "suggestion", raw |-> nm, tried |-> <<nm>>,
                         found |-> Truthy(info)])]

\* lines 291-311
Suggest ==
    /\ pc = "suggest"
    /\ LET missing == MissingNames(edhrec_names, ScryIdx(pool))
           capped == SubSeq(missing, 1,
                        IF Len(missing) < SuggestCap THEN Len(missing) ELSE SuggestCap)
           st == ForEach(LAMBDA s, nm : SuggestOne(s, nm, commander.color_identity, max_price),
                         [m |-> Memo, suggested |-> <<>>, lookups |-> lookups], capped)
       IN  /\ cache' = st.m.cache
           /\ calls' = st.m.calls
           /\ suggested' = st.suggested
           /\ lookups' = st.lookups
    /\ pc' = "done"
    /\ UNCHANGED <<inputs, commander, raw_names, pool, not_found, edhrec_names,
                   deck, error, pure>>

\* the build, step by step
Build ==
    \/ Validate
    \/ FetchCommander
    \/ ReadCollection
    \/ ResolveCollection
    \/ FetchEdhrec
    \/ Assemble
    \/ Suggest

\* a fresh session: nothing cached, nothing built
Fresh ==
    /\ cache = <<>>
    /\ calls = <<>>
    /\ lookups = <<>>
    /\ commander = NoCard
    /\ raw_names = <<>>
    /\ pool = <<>>
    /\ not_found = <<>>
    /\ edhrec_names = <<>>
    /\ deck = <<>>
    /\ suggested = <<>>
    /\ error = ""

PureIdle ==
    /\ raw = <<>>
    /\ key = <<>>
    /\ rekey = <<>>
    /\ card = NoCard
    /\ price = 0

(***************************************************************************)
(* Spec: builds over small collections, with requests that may fail        *)
(***************************************************************************)
\* most lines of an uploaded collection
MaxLines == 2

RECURSIVE SeqsUpTo(_, _)
SeqsUpTo(S, n) ==
    IF n = 0 THEN {<<>>}
    ELSE LET shorter == SeqsUpTo(S, n - 1)
         IN  shorter \cup {Append(s, x) : s \in shorter, x \in S}

CollectionLines ==
    {SolRingName, TwoSolRingName, CultivateName, VillainousWealthName, DelverName,
     ForestName, XyzzyName}

Uploads ==
    {NoFile, CsvFile(<<>>), CsvFile(<<HeaderNameName, SolRingName, CommandTowerName>>)}
    \cup {TxtFile(s) : s \in SeqsUpTo(CollectionLines, MaxLines)}

Feeds ==
    {<<>>,
     <<SolRingName, SolRingLowerName, DelverFrontName, RhysticStudyName>>,
     <<CultivateName, VillainousWealthName, LimDulsVaultName, XyzzyName>>}

Init ==
    /\ pc = "clicked"
    /\ Fresh
    /\ PureIdle
    /\ commander_name \in {<<>>, TatyovaName, TatyovaSetName, SolRingName}
    /\ uploaded \in Uploads
    /\ avg_cmc \in {30, 70}
    /\ max_price \in {0, 5 * PriceUnit}
    /\ down \in {{}, {TatyovaName}, {SolRingName}}
    /\ feed \in Feeds

Next == Build

Spec == Init /\ [][Next]_vars

(***************************************************************************)
(* SpecDeck: builds over collections around the deck size, every request   *)
(* answered                                                                *)
(***************************************************************************)
\* step between the curve targets tried, in tenths
CurveStep == 20

SliderMin == 10

SliderMax == 70

CurveTargets == {t \in SliderMin..SliderMax : (t - SliderMin) % CurveStep = 0}

GenericLines(n) == [i \in 1..n |-> GenericName(i)]

SpecialLines ==
    <<SolRingName, VillainousWealthName, CultivateName, ForestName, CommandTowerName>>

DeckUploads ==
    {TxtFile(GenericLines(n) \o s) :
        n \in {2, DeckSize - 1, DeckSize + PoolExcess}, s \in {<<>>, SpecialLines}}

DeckFeeds ==
    {<<>>,
     <<GenericName(3), CultivateName, VillainousWealthName, RhysticStudyName>>,
     GenericLines(DeckSize + 1)}

InitDeck ==
    /\ pc = "clicked"
    /\ Fresh
    /\ PureIdle
    /\ commander_name \in {TatyovaName, KarnName}
    /\ uploaded \in DeckUploads
    /\ avg_cmc \in CurveTargets
    /\ max_price = 5 * PriceUnit
    /\ down = {}
    /\ feed \in DeckFeeds

SpecDeck == InitDeck /\ [][Next]_vars

(***************************************************************************)
(* SpecNorm: _norm_name applied, and applied again, to every short string  *)
(***************************************************************************)
\* longest string normalized
MaxNameLen == 5

NameAlphabet == {"a", "S", "2", " ", "(", ")", "'"}

Normalize ==
    /\ pc = "norm"
    /\ key' = _norm_name(raw)
    /\ pc' = "normed"
    /\ UNCHANGED <<inputs, build, raw, rekey, card, price>>

Renormalize ==
    /\ pc = "normed"
    /\ rekey' = _norm_name(key)
    /\ pc' = "renormed"
    /\ UNCHANGED <<inputs, build, raw, key, card, price>>

InputsIdle ==
    /\ commander_name = <<>>
    /\ uploaded = NoFile
    /\ avg_cmc = 30
    /\ max_price = 5 * PriceUnit
    /\ down = {}
    /\ feed = <<>>

InitNorm ==
    /\ pc = "norm"
    /\ Fresh
    /\ InputsIdle
    /\ raw \in SeqsUpTo(NameAlphabet, MaxNameLen)
    /\ key = <<>>
    /\ rekey = <<>>
    /\ card = NoCard
    /\ price = 0

NextNorm == Normalize \/ Renormalize

SpecNorm == InitNorm /\ [][NextNorm]_vars

(***************************************************************************)
(* SpecPrice: get_price_eur applied to every pair of short price strings   *)
(***************************************************************************)
PriceAlphabet == {"1", "5", ".", "x"}

PriceStrings == SeqsUpTo(PriceAlphabet, MaxPriceLen)

\* prices of a record: each currency null, or a string (which may be empty)
PriceMaps ==
    {[eur |-> e, usd |-> u] : e \in PriceStrings, u \in PriceStrings}
    \cup {[eur |-> e] : e \in PriceStrings}
    \cup {[usd |-> u] : u \in PriceStrings}
    \cup {<<>>}

ExtractPrice ==
    /\ pc = "price"
    /\ price' = get_price_eur(card)
    /\ pc' = "priced"
    /\ UNCHANGED <<inputs, build, raw, key, rekey, card>>

InitPrice ==
    /\ pc = "price"
    /\ Fresh
    /\ InputsIdle
    /\ raw = <<>>
    /\ key = <<>>
    /\ rekey = <<>>
    /\ card \in {[name |-> XyzzyName, cmc |-> 1, color_identity |-> {}, prices |-> p] :
                    p \in PriceMaps}
    /\ price = 0

NextPrice == ExtractPrice

SpecPrice == InitPrice /\ [][NextPrice]_vars

(***************************************************************************)
(* Properties                                                              *)
(***************************************************************************)
Assembled == pc \in {"suggest", "done"}

NameKey(c) == _norm_name(c.name)

\* C1: the assembled deck never holds two entries whose names have the
\* same normalized key, the commander in slot 1 included.
C1_NoDuplicateKeys ==
    Assembled =>
        \A i, j \in 1..Len(deck) : i < j => NameKey(deck[i]) # NameKey(deck[j])

\* C2: a build that reaches assembly yields a deck of at least 1 and at
\* most 100 cards whose first entry is the resolved commander.
C2_DeckBounded ==
    Assembled =>
        /\ Len(deck) >= 1
        /\ Len(deck) <= DeckSize
        /\ deck[1] = commander
        /\ Truthy(commander)

\* a full deck out of more owned recommendations than fit
C2_Witness ==
    /\ pc = "done"
    /\ Len(deck) = DeckSize
    /\ deck[1] = commander
    /\ Len(pool) > DeckSize
    /\ Len(OwnedEdhrec(ScryIdx(pool), edhrec_names, commander.color_identity)) > DeckSize

\* C3: every deck entry but the commander has a color identity inside the
\* commander's, and a card of empty identity is legal whatever the commander.
C3_DeckLegal ==
    Assembled =>
        /\ \A i \in 2..Len(deck) :
               deck[i].color_identity \subseteq commander.color_identity
        /\ \A i \in 1..Len(pool) :
               pool[i].color_identity = {}
                   => is_commander_legal(pool[i], commander.color_identity)

\* under {G,U} a pool card of identity {B,G,U} stays out of a deck that took
\* other pool cards, a colorless one among them
C3_Witness ==
    /\ pc = "done"
    /\ commander.color_identity = {"G", "U"}
    /\ InSeq(VillainousWealth, pool)
    /\ ~InSeq(VillainousWealth, deck)
    /\ \E i \in 2..Len(deck) : deck[i].color_identity = {}
    /\ \E i \in 2..Len(deck) : deck[i].color_identity = {"G"}

\* C4: every resolution asks for the raw name first and, when that fails,
\* once more for the normalized name; a name counts as not found only when
\* both queries fail.
C4_RetryNormalized ==
    \A i \in 1..Len(lookups) :
        LET e == lookups[i]
            q1 == e.tried[1]
            q2 == _norm_name(e.raw)
        IN  /\ q1 \in {e.raw, Strip(e.raw)}
            /\ Truthy(cache[q1]) => e.tried = <<q1>>
            /\ ~Truthy(cache[q1]) => e.tried = <<q1, q2>>
            /\ ~e.found => ~Truthy(Respond(q1)) /\ ~Truthy(Respond(q2))

\* C5: _norm_name is idempotent.
C5_Idempotent == pc = "renormed" => rekey = key

\* the price a currency contributes: its value when present and parseable
Priced(p, cur) == HasPrice(p, cur) /\ Parseable(p[cur])

\* C6: the price is the EUR price when present and parseable, else (also
\* when the EUR string is malformed) the USD price when present and
\* parseable, else 0.
C6_PriceFallback ==
    pc = "priced" =>
        price = IF Priced(card.prices, "eur") THEN Float(card.prices["eur"])
                ELSE IF Priced(card.prices, "usd") THEN Float(card.prices["usd"])
                ELSE 0

\* C7: no suggestion bears a name whose normalized key is a key of the
\* collection pool, and under a ceiling above 0 none costs more than it.
C7_SuggestionsFiltered ==
    pc = "done" =>
        \A i \in 1..Len(suggested) :
            /\ ~DictHas(ScryIdx(pool), _norm_name(suggested[i].Name))
            /\ max_price > 0 => suggested[i].Price <= max_price

InputErrors == {"no_commander", "no_upload", "collection_unreadable"}

\* C8: a build that stops on an input error has sent no request before.
C8_NoCallBeforeInputError == error \in InputErrors => calls = <<>>

SumCmc(cs) == ForEach(LAMBDA a, c : a + c.cmc, 0, cs)

\* the cards the filler loop appends, for one outcome of the shift
FillerPicks(cmdr, staples, owned, sorted, shift) ==
    LET before == DeckBeforeFillers(cmdr, staples, owned)
        d == BuildDeck(cmdr, staples, owned, sorted, shift)
    IN  IF Len(d) > Len(before) THEN SubSeq(d, Len(before) + 1, Len(d)) ELSE <<>>

\* C9: with pool, commander and recommendations fixed, a higher curve target
\* never lowers the average mana value of the cards the filler pass appends.
C9_CurveMonotone ==
    pc = "assemble" =>
        LET idx == ScryIdx(pool)
            identity == commander.color_identity
            owned == OwnedEdhrec(idx, edhrec_names, identity)
            staples == StapleHits(idx, STAPLES, identity)
            sorted == SortedFillers(idx, owned, identity)
        IN  \A t1, t2 \in CurveTargets :
                t1 <= t2 =>
                    \A s1 \in ShiftOutcomes(Len(sorted), t1),
                       s2 \in ShiftOutcomes(Len(sorted), t2) :
                        LET p1 == FillerPicks(commander, staples, owned, sorted, s1)
                            p2 == FillerPicks(commander, staples, owned, sorted, s2)
                        IN  (p1 # <<>> /\ p2 # <<>>)
                                => SumCmc(p1) * Len(p2) <= SumCmc(p2) * Len(p1)

\* the rank the ordering is said to use: the sentinel for an absent rank only
StatedRank(x) == IF "edhrec_rank" \in DOMAIN x THEN x.edhrec_rank ELSE RankSentinel

\* C10: before the rotation the fillers stand by rank ascending and, among
\* equal ranks, by mana value ascending, mana value 0 first.
C10_FillerOrder ==
    pc = "assemble" =>
        LET idx == ScryIdx(pool)
            identity == commander.color_identity
            f == SortedFillers(idx, OwnedEdhrec(idx, edhrec_names, identity), identity)
        IN  \A i, j \in 1..Len(f) :
                i < j =>
                    \/ StatedRank(f[i]) < StatedRank(f[j])
                    \/ /\ StatedRank(f[i]) = StatedRank(f[j])
                       /\ f[i].cmc <= f[j].cmc

====
